---- MODULE Spec2Model ----
(***************************************************************************)
(* The asynchronous task completion protocol of the three Kie.ai clients:  *)
(*   KieGenerator.wait_for_task          (src/kie_generator.py)            *)
(*   Sora2VideoCreator.wait_for_video    (src/sora2_video_creator.py)      *)
(*   Veo3VideoCreator.wait_for_video     (src/veo_video_creator.py)        *)
(* One call of a waiter is modelled: the environment (the vendor's task,   *)
(* the webhook relay's inbox, the clock) and one action per loop           *)
(* iteration of each waiter.  The other methods of the clients have their  *)
(* own specifications below: ChannelSpec (get_webhook_requests and         *)
(* query_task, one action per HTTP attempt) and FacadeSpec (the generator  *)
(* facades and the downloaders).                                           *)
(***************************************************************************)
EXTENDS Integers, Sequences, FiniteSets, TLC

VARIABLES
    client,                        \* which waiter runs: "kie", "sora2", "veo3"
    webhook_id,                    \* the webhook_id argument, NoWebhook when None
    max_wait_time,                 \* the max_wait_time argument
    poll_interval,                 \* the poll_interval argument
    clock,                         \* time.time() - start_time, now
    elapsed,                       \* elapsed as measured at the last loop top
    poll_attempt,                  \* KieGenerator.wait_for_task: poll_attempt
    consecutive_webhook_failures,  \* Veo3: consecutive_webhook_failures
    last_direct_query_time,        \* Veo3: last_direct_query_time
    remote,                        \* the vendor's state of the awaited task
    inbox,                         \* payloads queued at the webhook relay
    outcome,                       \* how the call ended, Running while it has not
    iter,                          \* history: loop iterations entered
    fetch,                         \* history: the webhook fetch of the last iteration
    failStreak,                    \* history (Veo3): consecutive iterations whose relay request failed
    query                          \* history: the direct query of the last iteration

VARIABLES
    op,                            \* the method of the client that was called
    pc,                            \* the step a facade call is at
    steps,                         \* history: the steps of a facade call, or the requests of query_task, with their outcome
    payload,                       \* the data object of the result the waiter returned to the facade
    url,                           \* the asset URL handed to the downloader
    max_retries,                   \* the max_retries argument of the downloader
    tried,                         \* history: the outcome of every HTTP attempt of the call
    slept,                         \* history: every time.sleep between the attempts of the call
    file,                          \* bytes of the file at save_path, NoFile while there is none
    ret                            \* what the call gave back: NotYet, Returned(v) or Raised(e)

waitVars == << client, webhook_id, max_wait_time, poll_interval, clock, elapsed,
               poll_attempt, consecutive_webhook_failures, last_direct_query_time,
               remote, inbox, outcome, iter, fetch, failStreak, query >>

callVars == << op, pc, steps, payload, url, max_retries, tried, slept, file, ret >>

VARIABLES
    is_running,                    \* AutomationLoop.is_running
    total_products_processed,      \* AutomationLoop.total_products_processed
    total_products_skipped,        \* AutomationLoop.total_products_skipped
    consecutive_failures,          \* AutomationLoop.consecutive_failures
    round_number,                  \* run_automation_loop: round_number
    idx,                           \* run_automation_loop: idx of the for loop
    at,                            \* where run_automation_loop is
    generated_images,              \* len(st.session_state.generated_images)
    video_method,                  \* the video_method argument
    api_keys,                      \* config.KIE_API_KEY and config.IMGBB_API_KEY are set
    stop_requested,                \* not st.session_state.loop_is_running: what stop_callback returns
    stopped_by,                    \* history: why the loop ended
    started,                       \* history: product iterations started
    images_started,                \* history: image steps that called the image generation
    videos_started,                \* history: product iterations that started a video attempt
    failed_since_ok,               \* history: image generations that failed since the last image made
    video_log                      \* history: the video attempts of the last video step

loopVars == << is_running, total_products_processed, total_products_skipped,
               consecutive_failures, round_number, idx, at, generated_images,
               video_method, api_keys, stop_requested, stopped_by, started,
               images_started, videos_started, failed_since_ok, video_log >>

vars == << waitVars, callVars, loopVars >>

(***************************************************************************)
(* Bounds of the model.                                                    *)
(***************************************************************************)
MaxInbox == 2       \* payloads the relay inbox holds at most
MaxJitter == 1      \* extra seconds an iteration may take beyond the sleep
PollStep == 60      \* the poll_interval the caller passes
MaxWait == 300      \* the largest max_wait_time the caller passes

(***************************************************************************)
(* Program constants.                                                      *)
(***************************************************************************)
max_consecutive_failures == 2
DirectQueryInterval == 120
KiePollEvery == 3

\* An iteration takes the sleep alone, or the sleep and the longest delay.
Jitters == {0, MaxJitter}

Clients == {"kie", "sora2", "veo3"}
NoWebhook == "None"
task_id == "T1"
OtherTask == "T2"
PhotoMsg == "photorealistic people"
PlainMsg == "quota exceeded"

(***************************************************************************)
(* Vendor payloads: the data object of a callback or of a status reply.    *)
(***************************************************************************)
Data(t, s, m) == [taskId |-> t, state |-> s, failMsg |-> m]
NoData == Data("", "", "")
Pending == Data(task_id, "pending", "")
TerminalStates ==
    { Data(task_id, "success", ""),
      Data(task_id, "fail", PlainMsg),
      Data(task_id, "fail", PhotoMsg) }
RemoteStates == {Pending} \cup TerminalStates

\* A request stored by the relay: content that parses as JSON or does not.
Request(d) == [parse |-> TRUE, data |-> d]
Garbage == [parse |-> FALSE, data |-> NoData]
OtherRequests ==
    { Request(Data(OtherTask, "success", "")),
      Request(Data(OtherTask, "fail", PlainMsg)) }

(***************************************************************************)
(* Results of a step of the waiter.                                        *)
(***************************************************************************)
Msg(t, m) == [text |-> t, failMsg |-> m]
NoMsg == Msg("", "")
Result(k, v, d, m) == [kind |-> k, via |-> v, data |-> d, msg |-> m]
Running == Result("running", "none", NoData, NoMsg)
Continue == Result("continue", "none", NoData, NoMsg)
Return(v, d) == Result("success", v, d, NoMsg)
Raise(v, m) == Result("failed", v, NoData, m)
Crash(v) == Result("crash", v, NoData, Msg("TypeError", ""))
TimedOut == Result("timeout", "none", NoData, Msg("TimeoutError", ""))

\* 'photorealistic people' in s.lower(), for the messages of the model
ContainsPhoto(m) == m.failMsg = PhotoMsg \/ m.text = "Sora 2 Error: Image contains photorealistic people"

(***************************************************************************)
(* Webhook channel.                                                        *)
(***************************************************************************)
RelayOutcomes == {"ok", "error", "null"}
Fetched(n, l) == [none |-> n, list |-> l]

\* get_webhook_requests: data.get('data', []) of the relay's answer, [] when
\* the request failed; None when the answer carries "data": null.
GetWebhookRequests(relay, queued) ==
    CASE relay = "ok" -> Fetched(FALSE, queued)
      [] relay = "error" -> Fetched(FALSE, << >>)
      [] relay = "null" -> Fetched(TRUE, << >>)

\* The message of the exception a waiter raises for a failed task.
FailMessage(c, m) ==
    CASE c = "kie" -> Msg("Task failed", m)
      [] c = "veo3" -> Msg("Video generation failed", m)
      [] c = "sora2" ->
            IF m = PhotoMsg
            THEN Msg("Sora 2 Error: Image contains photorealistic people", "")
            ELSE Msg("Task failed", m)

\* TryRequest comparing the state with a literal the vendor never sends.
TryRequestWrongState(c, req) ==
    IF ~req.parse THEN Result("jsonerror", "webhook", NoData, NoMsg)
    ELSE IF req.data.taskId # task_id THEN Continue
    ELSE IF req.data.state = "completed" THEN Return("webhook", req.data)
    ELSE IF req.data.state = "fail" THEN Raise("webhook", FailMessage(c, req.data.failMsg))
    ELSE Continue

\* TryRequest without the comparison of data.taskId with task_id.
TryRequestAnyTask(c, req) ==
    IF ~req.parse THEN Result("jsonerror", "webhook", NoData, NoMsg)
    ELSE IF req.data.state = "success" THEN Return("webhook", req.data)
    ELSE IF req.data.state = "fail" THEN Raise("webhook", FailMessage(c, req.data.failMsg))
    ELSE Continue

\* The body of the try block run for one request of the fetched list.
TryRequest(c, req) ==
    IF ~req.parse THEN Result("jsonerror", "webhook", NoData, NoMsg)
    ELSE IF req.data.taskId # task_id THEN Continue
    ELSE IF req.data.state = "success" THEN Return("webhook", req.data)
    ELSE IF req.data.state = "fail" THEN Raise("webhook", FailMessage(c, req.data.failMsg))
    ELSE Continue

\* ExceptRequest with json.loads outside the try block: the error leaves the waiter.
ExceptRequestNoJson(c, r) ==
    IF r.kind = "jsonerror" THEN Crash("webhook")
    ELSE IF r.kind = "failed"
         THEN IF c = "sora2" /\ ContainsPhoto(r.msg) THEN r ELSE Continue
    ELSE r

\* The except clauses around that body: json.JSONDecodeError, then Exception.
ExceptRequest(c, r) ==
    IF r.kind = "jsonerror" THEN Continue
    ELSE IF r.kind = "failed"
         THEN IF c = "sora2" /\ ContainsPhoto(r.msg) THEN r ELSE Continue
    ELSE r

\* ProcessRequests taking a result only when exactly one request of the list gives one.
ProcessRequestsStrict(c, list, i) ==
    LET hits == {j \in i..Len(list) : ExceptRequest(c, TryRequest(c, list[j])) # Continue}
    IN  IF Cardinality(hits) = 1
        THEN ExceptRequest(c, TryRequest(c, list[CHOOSE j \in hits : TRUE]))
        ELSE Continue

\* The for loop over the fetched list, from its i-th request on.
RECURSIVE ProcessRequests(_, _, _)
ProcessRequests(c, list, i) ==
    IF i > Len(list) THEN Continue
    ELSE LET r == ExceptRequest(c, TryRequest(c, list[i]))
         IN  IF r = Continue THEN ProcessRequests(c, list, i + 1) ELSE r

\* The webhook part of an iteration of KieGenerator and Sora2VideoCreator.
CheckWebhook(c, wid, relay, queued) ==
    LET rl == GetWebhookRequests(relay, queued)
    IN  IF wid = NoWebhook THEN Continue
        ELSE IF rl.none THEN Crash("webhook")
        ELSE ProcessRequests(c, rl.list, 1)

(***************************************************************************)
(* Direct poll channel.                                                    *)
(***************************************************************************)
NetOutcomes == {"ok", "non200", "neterr"}
Reply(r, n, c, d) == [raised |-> r, none |-> n, code |-> c, data |-> d]

\* query_task: the vendor's reply, or (every endpoint failed) an exception
\* in KieGenerator and Sora2VideoCreator and None in Veo3VideoCreator.
QueryTask(c, net, rem) ==
    CASE net = "ok" -> Reply(FALSE, FALSE, 200, rem)
      [] net = "non200" -> Reply(FALSE, FALSE, 500, NoData)
      [] net = "neterr" -> Reply(c # "veo3", c = "veo3", 0, NoData)

QueryLabel(net, rem) == IF net = "ok" THEN rem.state ELSE net

\* DirectQuery with query_task called outside the try block: its exception leaves the waiter.
DirectQueryUncaught(c, q) ==
    IF q.raised THEN Crash("poll")
    ELSE IF q.none \/ q.code # 200 THEN Continue
    ELSE IF q.data.state = "success" THEN Return("poll", q.data)
    ELSE IF q.data.state = "fail"
         THEN Raise("poll", Msg(IF c = "veo3" THEN "Video generation failed" ELSE "Task failed",
                                q.data.failMsg))
    ELSE Continue

\* What a waiter does with the reply of query_task, before any except clause.
DirectQuery(c, q) ==
    IF q.raised \/ q.none \/ q.code # 200 THEN Continue
    ELSE IF q.data.state = "success" THEN Return("poll", q.data)
    ELSE IF q.data.state = "fail"
         THEN Raise("poll", Msg(IF c = "veo3" THEN "Video generation failed" ELSE "Task failed",
                                q.data.failMsg))
    ELSE Continue

\* The except Exception clause around the direct query (none in Veo3).
ExceptQuery(c, r) ==
    IF c \in {"kie", "sora2"} /\ r.kind = "failed" THEN Continue ELSE r

\* TimeIsUp giving up when the next sleep would pass max_wait_time.
TimeIsUpEarly(e, t) == e + poll_interval > t

\* elapsed > max_wait_time at the loop top
TimeIsUp(e, t) == e > t

\* poll_attempt % 3 == 0
KiePollsNow(attempt) == attempt % KiePollEvery = 0

\* should_query_direct of Veo3VideoCreator.wait_for_video
ShouldQueryDirect(failures, e, last) ==
    failures >= max_consecutive_failures /\ (e - last) >= DirectQueryInterval

Min(a, b) == IF a < b THEN a ELSE b

(***************************************************************************)
(* What a call of a method gives back.                                     *)
(***************************************************************************)
NoFile == -1
NoUrl == ""
NoValue == [none |-> TRUE]
Error(k, n) == [kind |-> k, attempt |-> n]
NotYet == [status |-> "pending", value |-> NoValue]
Returned(v) == [status |-> "returned", value |-> v]
Raised(e) == [status |-> "raised", value |-> e]

\* A resultJson value: absent, a string (json.loads gives obj, or raises
\* when it is no JSON), or an object already.
Obj(urls, video) == [resultUrls |-> urls, videoUrl |-> video]
EmptyObj == Obj(<< >>, NoUrl)
Json(g, s, v, o) == [given |-> g, str |-> s, valid |-> v, obj |-> o]
NoJson == Json(FALSE, FALSE, FALSE, EmptyObj)
JsonString(o) == Json(TRUE, TRUE, TRUE, o)
NotJson == Json(TRUE, TRUE, FALSE, EmptyObj)
ResultData(j, urls, video) == [resultJson |-> j, resultUrls |-> urls, videoUrl |-> video]
NoPayload == ResultData(NoJson, << >>, NoUrl)

\* No automation loop runs: the AutomationLoop object as __init__ leaves it.
NoLoop ==
    /\ is_running = FALSE
    /\ total_products_processed = 0
    /\ total_products_skipped = 0
    /\ consecutive_failures = 0
    /\ round_number = 0
    /\ idx = 0
    /\ at = "idle"
    /\ generated_images = 0
    /\ video_method = "Sora 2"
    /\ api_keys = TRUE
    /\ stop_requested = FALSE
    /\ stopped_by = "none"
    /\ started = 0
    /\ images_started = 0
    /\ videos_started = 0
    /\ failed_since_ok = 0
    /\ video_log = << >>

\* Nothing has been done by the call yet.
NoCallYet ==
    /\ pc = "start"
    /\ steps = << >>
    /\ payload = NoPayload
    /\ url = NoUrl
    /\ max_retries = 0
    /\ tried = << >>
    /\ slept = << >>
    /\ file = NoFile
    /\ ret = NotYet

(***************************************************************************)
(* The state after the waiter has set start_time.                          *)
(***************************************************************************)
Init ==
    /\ client \in Clients
    /\ webhook_id \in {NoWebhook, "wh-1"}
    /\ max_wait_time \in {0, MaxWait}
    /\ poll_interval = PollStep
    /\ clock = 0
    /\ elapsed = 0
    /\ poll_attempt = 0
    /\ consecutive_webhook_failures = 0
    /\ last_direct_query_time = 0
    /\ remote = Pending
    /\ inbox = << >>
    /\ outcome = Running
    /\ iter = 0
    /\ fetch = "skip"
    /\ failStreak = 0
    /\ query = "none"
    /\ op = "wait"
    /\ NoCallYet
    /\ NoLoop

(***************************************************************************)
(* Environment: the vendor finishes the task; a callback reaches the relay.*)
(***************************************************************************)
TaskFinishes ==
    /\ outcome = Running
    /\ remote = Pending
    /\ remote' \in TerminalStates
    /\ UNCHANGED << client, webhook_id, max_wait_time, poll_interval, clock, elapsed,
                    poll_attempt, consecutive_webhook_failures, last_direct_query_time,
                    inbox, outcome, iter, fetch, failStreak, query >>
    /\ UNCHANGED callVars
    /\ UNCHANGED loopVars

Deliver ==
    /\ outcome = Running
    /\ webhook_id # NoWebhook
    /\ Len(inbox) < MaxInbox
    /\ \E req \in OtherRequests \cup {Garbage, Request(remote)} :
          inbox' = Append(inbox, req)
    /\ UNCHANGED << client, webhook_id, max_wait_time, poll_interval, clock, elapsed,
                    poll_attempt, consecutive_webhook_failures, last_direct_query_time,
                    remote, outcome, iter, fetch, failStreak, query >>
    /\ UNCHANGED callVars
    /\ UNCHANGED loopVars

(***************************************************************************)
(* The waiters.                                                            *)
(***************************************************************************)
\* What every iteration records, and how it ends: r is Continue (sleep and
\* loop) or the result that leaves the loop.
EndIteration(r, jit, fetched, relay, polled, net) ==
    /\ elapsed' = clock
    /\ iter' = iter + 1
    /\ fetch' = IF fetched THEN relay ELSE "skip"
    /\ failStreak' = IF client # "veo3" \/ ~fetched THEN failStreak
                     ELSE IF relay = "error" THEN Min(failStreak + 1, max_consecutive_failures)
                     ELSE 0
    /\ query' = IF polled THEN QueryLabel(net, remote) ELSE "none"
    /\ outcome' = IF r = Continue THEN Running ELSE r
    /\ clock' = IF r = Continue THEN clock + poll_interval + jit ELSE clock
    /\ UNCHANGED << client, webhook_id, max_wait_time, poll_interval, remote, inbox >>
    /\ UNCHANGED callVars
    /\ UNCHANGED loopVars

\* The loop top of every waiter when the time is up.
TimeoutCheck ==
    /\ outcome = Running
    /\ TimeIsUp(clock, max_wait_time)
    /\ elapsed' = clock
    /\ outcome' = TimedOut
    /\ UNCHANGED << client, webhook_id, max_wait_time, poll_interval, clock,
                    poll_attempt, consecutive_webhook_failures, last_direct_query_time,
                    remote, inbox, iter, fetch, failStreak, query >>
    /\ UNCHANGED callVars
    /\ UNCHANGED loopVars

\* One iteration of KieGenerator.wait_for_task.
KieIteration ==
    /\ client = "kie"
    /\ outcome = Running
    /\ ~TimeIsUp(clock, max_wait_time)
    /\ \E relay \in RelayOutcomes, net \in NetOutcomes, jit \in Jitters :
          LET w == CheckWebhook("kie", webhook_id, relay, inbox)
              attempt == poll_attempt + 1
              polled == w = Continue /\ KiePollsNow(attempt)
              p == IF polled
                   THEN ExceptQuery("kie", DirectQuery("kie", QueryTask("kie", net, remote)))
                   ELSE Continue
              r == IF w # Continue THEN w ELSE p
          IN  /\ poll_attempt' = IF w = Continue THEN attempt ELSE poll_attempt
              /\ EndIteration(r, jit, webhook_id # NoWebhook, relay, polled, net)
    /\ UNCHANGED << consecutive_webhook_failures, last_direct_query_time >>

\* One iteration of Sora2VideoCreator.wait_for_video.
Sora2Iteration ==
    /\ client = "sora2"
    /\ outcome = Running
    /\ ~TimeIsUp(clock, max_wait_time)
    /\ \E relay \in RelayOutcomes, net \in NetOutcomes, jit \in Jitters :
          LET w == CheckWebhook("sora2", webhook_id, relay, inbox)
              polled == w = Continue
              p == IF polled
                   THEN ExceptQuery("sora2", DirectQuery("sora2", QueryTask("sora2", net, remote)))
                   ELSE Continue
              r == IF w # Continue THEN w ELSE p
          IN  EndIteration(r, jit, webhook_id # NoWebhook, relay, polled, net)
    /\ UNCHANGED << poll_attempt, consecutive_webhook_failures, last_direct_query_time >>

\* One iteration of Veo3VideoCreator.wait_for_video.
Veo3Iteration ==
    /\ client = "veo3"
    /\ outcome = Running
    /\ ~TimeIsUp(clock, max_wait_time)
    /\ \E relay \in RelayOutcomes, net \in NetOutcomes, jit \in Jitters :
          LET fetched == webhook_id # NoWebhook
                         /\ consecutive_webhook_failures < max_consecutive_failures
              rl == GetWebhookRequests(relay, inbox)
              w == IF fetched /\ ~rl.none THEN ProcessRequests("veo3", rl.list, 1) ELSE Continue
              failures == IF ~fetched THEN consecutive_webhook_failures
                          ELSE IF rl.none THEN consecutive_webhook_failures + 1
                          ELSE 0
              polled == w = Continue /\ ShouldQueryDirect(failures, clock, last_direct_query_time)
              p == IF polled
                   THEN ExceptQuery("veo3", DirectQuery("veo3", QueryTask("veo3", net, remote)))
                   ELSE Continue
              r == IF w # Continue THEN w ELSE p
          IN  /\ consecutive_webhook_failures' = failures
              /\ last_direct_query_time' = IF polled THEN clock ELSE last_direct_query_time
              /\ EndIteration(r, jit, fetched, relay, polled, net)
    /\ UNCHANGED poll_attempt

Next ==
    \/ TaskFinishes
    \/ Deliver
    \/ TimeoutCheck
    \/ KieIteration
    \/ Sora2Iteration
    \/ Veo3Iteration

Spec == Init /\ [][Next]_vars

TypeOK ==
    /\ client \in Clients
    /\ remote \in RemoteStates
    /\ Len(inbox) <= MaxInbox
    /\ outcome.kind \in {"running", "success", "failed", "timeout", "crash"}
    /\ fetch \in RelayOutcomes \cup {"skip"}
    /\ query \in {"none", "neterr", "non200", "pending", "success", "fail"}
    /\ consecutive_webhook_failures \in 0..max_consecutive_failures

(***************************************************************************)
(* Properties.                                                             *)
(***************************************************************************)
\* The list holds a parsable payload of the awaited task in state s.
HasOwn(list, s) ==
    \E i \in 1..Len(list) :
        list[i].parse /\ list[i].data.taskId = task_id /\ list[i].data.state = s

\* This step is a loop iteration that fetched the inbox from the relay.
FetchedInbox == iter' = iter + 1 /\ fetch' = "ok"

\* C1: in every waiter, an iteration whose fetched inbox holds a payload of
\* the awaited task in state fail ends the wait at once with a failure raised
\* from the webhook channel, without sleeping.
C1_WebhookFailRaises ==
    [][(FetchedInbox /\ HasOwn(inbox, "fail"))
          => (outcome'.kind = "failed" /\ outcome'.via = "webhook" /\ clock' = clock)]_vars

\* C2: in every waiter, a direct query that answers code 200 with state fail
\* ends the wait in that iteration with a failure carrying failMsg.
C2_PollFailRaises ==
    query = "fail" =>
        /\ outcome.kind = "failed"
        /\ outcome.via = "poll"
        /\ outcome.msg.failMsg = remote.failMsg

C4_DemotedAfterFailures ==
    (client = "veo3" /\ webhook_id # NoWebhook /\ failStreak >= max_consecutive_failures)
        => consecutive_webhook_failures >= max_consecutive_failures

\* C5: in Veo3, after the demotion, an iteration that finds a success callback
\* of the awaited task in the inbox returns success.
C5_LateWebhookSuccess ==
    [][(client = "veo3" /\ iter' = iter + 1
          /\ consecutive_webhook_failures >= max_consecutive_failures
          /\ HasOwn(inbox, "success"))
          => outcome'.kind = "success"]_vars

\* C6: a waiter called without a webhook polls: at least every third
\* iteration issues a direct query, and a query that reports success makes the
\* wait return that reply.
C6_NoWebhookPolls ==
    webhook_id = NoWebhook =>
        /\ (iter > 0 /\ iter % KiePollEvery = 0) => query # "none"
        /\ query = "success" => outcome = Return("poll", remote)

IsTerminalOwn(req) ==
    req.parse /\ req.data.taskId = task_id /\ req.data.state \in {"success", "fail"}

\* Which requests of a list a comparison keeps: all but the repetitions of an
\* earlier terminal payload of the awaited task, all but the payloads of
\* other tasks, or all but the unparsable ones.
Keep(list, i, which) ==
    CASE which = "first copy" ->
            ~(IsTerminalOwn(list[i]) /\ \E j \in 1..(i - 1) : list[j] = list[i])
      [] which = "not foreign" -> ~(list[i].parse /\ list[i].data.taskId # task_id)
      [] which = "parsable" -> list[i].parse

\* The requests of the list that are kept, in order.
Filter(list, which) ==
    LET kept == {i \in 1..Len(list) : Keep(list, i, which)}
    IN  [k \in 1..Cardinality(kept) |->
            list[CHOOSE i \in kept : Cardinality({j \in kept : j <= i}) = k]]

\* The step ends the wait with w when w ends it, and otherwise does not end
\* it from the webhook channel.
WebhookPartIs(w) ==
    IF w = Continue THEN outcome'.via # "webhook" ELSE outcome' = w

\* C7: an iteration whose fetched inbox holds a success payload of the awaited
\* task returns that payload from the webhook channel, with no direct query
\* issued in the iteration and without sleeping.
C7_WebhookSuccessFirst ==
    [][(FetchedInbox /\ HasOwn(inbox, "success"))
          => /\ outcome' = Return("webhook", Data(task_id, "success", ""))
             /\ query' = "none"
             /\ clock' = clock
             /\ poll_attempt' = poll_attempt]_vars

C7_Witness ==
    /\ outcome.kind = "success" /\ outcome.via = "webhook"
    /\ iter >= 2 /\ query = "none" /\ clock = elapsed

\* C8: an iteration ends as it would with a single copy of every repeated
\* terminal payload of the awaited task, and a wait that has ended stays ended.
C8_DuplicatesIdempotent ==
    [][/\ FetchedInbox => WebhookPartIs(ProcessRequests(client, Filter(inbox, "first copy"), 1))
       /\ outcome # Running => outcome' = outcome]_vars

C8_Witness ==
    /\ outcome.kind = "success" /\ outcome.via = "webhook"
    /\ Len(inbox) >= 2 /\ inbox[1] = inbox[2] /\ IsTerminalOwn(inbox[1])

\* C9: a payload of another task never ends the wait: an iteration ends as it
\* would without the payloads of other tasks, and a result taken from the
\* webhook channel is a payload of the awaited task.
C9_OtherTaskIgnored ==
    [][FetchedInbox =>
          /\ WebhookPartIs(ProcessRequests(client, Filter(inbox, "not foreign"), 1))
          /\ (outcome'.via = "webhook" /\ outcome'.kind = "success")
                => outcome'.data.taskId = task_id]_vars

C9_Witness ==
    /\ outcome.kind = "success" /\ outcome.via = "webhook"
    /\ Len(inbox) >= 2
    /\ inbox[1].parse /\ inbox[1].data.taskId = OtherTask

\* C10: a payload that does not parse is skipped: an iteration ends as it would
\* without the unparsable payloads, so a success payload behind one is returned.
C10_GarbageSkipped ==
    [][FetchedInbox =>
          /\ WebhookPartIs(ProcessRequests(client, Filter(inbox, "parsable"), 1))
          /\ HasOwn(inbox, "success") => outcome'.kind = "success"]_vars

C10_Witness ==
    /\ outcome.kind = "success" /\ outcome.via = "webhook"
    /\ Len(inbox) >= 2 /\ inbox[1] = Garbage

\* This step is a loop iteration in which a channel failed and no channel
\* answered: the relay request failed or was not made, and the direct query
\* failed on every endpoint, gave a vendor code other than 200, or was not made.
ChannelsFailed ==
    /\ iter' = iter + 1
    /\ fetch' \in {"error", "skip"}
    /\ query' \in {"neterr", "non200", "none"}
    /\ (fetch' = "error" \/ query' # "none")

HasOwnPhoto(list) ==
    \E i \in 1..Len(list) :
        /\ list[i].parse /\ list[i].data.taskId = task_id
        /\ list[i].data.state = "fail" /\ list[i].data.failMsg = PhotoMsg

\* C19: in Sora2VideoCreator.wait_for_video, an iteration that learns of the
\* task's failure with a failMsg containing 'photorealistic people', from the
\* fetched inbox or from the reply of the direct query, raises an error whose
\* message contains 'photorealistic people'.
C19_PhotoErrorRaised ==
    [][(client = "sora2" /\ iter' = iter + 1
          /\ \/ fetch' = "ok" /\ HasOwnPhoto(inbox)
             \/ query' = "fail" /\ remote.failMsg = PhotoMsg)
          => (outcome'.kind = "failed" /\ ContainsPhoto(outcome'.msg))]_vars

\* The waiter is sequential code: while the call has not ended its loop takes
\* its next step, the timeout check or the body of an iteration.
LiveSpec ==
    /\ Spec
    /\ WF_vars(TimeoutCheck)
    /\ WF_vars(KieIteration \/ Sora2Iteration \/ Veo3Iteration)

\* C21: every call of a waiter eventually ends, and ends in one of three
\* ways only: it returns a success payload, it raises the failure of the
\* remote task, or it raises TimeoutError; once ended, the outcome never changes.
C21_EndsOneOfThree ==
    /\ <>(outcome # Running)
    /\ [](outcome.kind \in {"running", "success", "failed", "timeout"})
    /\ [][outcome # Running => outcome' = outcome]_vars

\* C22: direct queries are rate-limited while the webhook works: an iteration
\* that fetched the inbox issues a direct query in KieGenerator only when it
\* is a 3rd iteration, in Veo3 never, and in Sora2 not when the iteration
\* before it issued one; a Veo3 query is issued only after the demotion and
\* at least 120 seconds of elapsed time after the Veo3 query before it.
C22_PollRateLimited ==
    [][(iter' = iter + 1 /\ query' # "none") =>
          /\ (client = "kie" /\ fetch' = "ok") => poll_attempt' % KiePollEvery = 0
          /\ (client = "sora2" /\ fetch' = "ok") => query = "none"
          /\ client = "veo3" =>
                /\ fetch' # "ok"
                /\ consecutive_webhook_failures' >= max_consecutive_failures
                /\ clock - last_direct_query_time >= DirectQueryInterval]_vars

(***************************************************************************)
(* get_webhook_requests and query_task on their own: one call, one action  *)
(* per HTTP attempt.  The relay holds inbox and the vendor remote.         *)
(***************************************************************************)
retry_count == 3
RetrySleep == 1

\* The GET requests one call of get_webhook_requests makes at most: the
\* range(retry_count) loop of Veo3VideoCreator, the single try of the others.
FetchAttempts(c) == IF c = "veo3" THEN retry_count ELSE 1

Endpoint(m, path) == [method |-> m, path |-> path]

\* An entry of steps: a step of a facade, or a request of query_task, with its outcome.
Step(s, r) == [step |-> s, result |-> r]

\* possible_endpoints: the GET variants, in the order of the list.
GetEndpoints(c) ==
    CASE c = "kie" -> << Endpoint("GET", "playground/recordInfo?taskId=") >>
      [] c = "sora2" -> << Endpoint("GET", "jobs/query?taskId="),
                           Endpoint("GET", "playground/query?taskId=") >>
      [] c = "veo3" -> << Endpoint("GET", "jobs/query?taskId="),
                          Endpoint("GET", "playground/query?taskId="),
                          Endpoint("GET", "veo/query?taskId=") >>

\* post_endpoints: the POST variants, in the order of the list.
PostEndpoints(c) ==
    IF c = "kie" THEN << >>
    ELSE << Endpoint("POST", "jobs/query"), Endpoint("POST", "playground/query") >>

\* Endpoints with the POST loop before the GET loop.
EndpointsPostFirst(c) == PostEndpoints(c) \o GetEndpoints(c)

\* The candidate endpoints of query_task, in the order the two loops take them.
Endpoints(c) == GetEndpoints(c) \o PostEndpoints(c)

Inboxes(rem) == { << >>, << Request(rem) >>, << Garbage, Request(rem) >> }

ChannelInit ==
    /\ client \in Clients
    /\ webhook_id = "wh-1"
    /\ max_wait_time = 0
    /\ poll_interval = PollStep
    /\ clock = 0
    /\ elapsed = 0
    /\ poll_attempt = 0
    /\ consecutive_webhook_failures = 0
    /\ last_direct_query_time = 0
    /\ remote \in RemoteStates
    /\ inbox \in Inboxes(remote)
    /\ outcome = Running
    /\ iter = 0
    /\ fetch = "skip"
    /\ failStreak = 0
    /\ query = "none"
    /\ op \in {"get_webhook_requests", "query_task"}
    /\ NoCallYet
    /\ NoLoop

\* One requests.get of get_webhook_requests and what follows it: the return
\* of the answer's list, or the except clause (sleep and retry, or return []).
FetchAttempt ==
    /\ op = "get_webhook_requests"
    /\ ret.status = "pending"
    /\ \E relay \in RelayOutcomes :
          LET last == Len(tried) + 1 >= FetchAttempts(client)
          IN  /\ tried' = Append(tried, relay)
              /\ ret' = IF relay # "error" \/ last
                        THEN Returned(GetWebhookRequests(relay, inbox))
                        ELSE ret
              /\ slept' = IF relay = "error" /\ ~last THEN Append(slept, RetrySleep) ELSE slept
    /\ UNCHANGED << waitVars, op, pc, steps, payload, url, max_retries, file >>
    /\ UNCHANGED loopVars

\* One request of query_task to the next candidate endpoint and what follows
\* it: the return of the reply, the next endpoint, or the end of the lists.
QueryAttempt ==
    /\ op = "query_task"
    /\ ret.status = "pending"
    /\ \E net \in NetOutcomes :
          LET n == Len(tried) + 1
              q == QueryTask(client, net, remote)
          IN  /\ tried' = Append(tried, net)
              /\ steps' = Append(steps, Step(Endpoints(client)[n], net))
              /\ ret' = IF net # "neterr" THEN Returned(q)
                        ELSE IF n < Len(Endpoints(client)) THEN ret
                        ELSE IF q.raised THEN Raised(Error("RequestException", n))
                        ELSE Returned(q)
    /\ UNCHANGED << waitVars, op, pc, payload, url, max_retries, slept, file >>
    /\ UNCHANGED loopVars

ChannelNext ==
    \/ FetchAttempt
    \/ QueryAttempt

ChannelSpec == ChannelInit /\ [][ChannelNext]_vars

AllTried(list, x) == \A i \in 1..Len(list) : list[i] = x

\* C16: query_task returns None, and does not raise, when every candidate
\* endpoint (every GET variant and every POST variant) has failed.
C16_QueryNoneWhenAllFail ==
    (op = "query_task" /\ Len(tried) = Len(Endpoints(client)) /\ AllTried(tried, "neterr"))
        => (ret.status = "returned" /\ ret.value.none)

\* C18: get_webhook_requests never raises; a failed relay request is retried
\* until retry_count (3) requests have been made, and when all of them fail
\* the empty list is returned; a request that succeeds returns the list of
\* the inbox and is the last request of the call.
C18_FetchRetriesThenEmpty ==
    op = "get_webhook_requests" =>
        /\ ret.status # "raised"
        /\ Len(tried) <= retry_count
        /\ AllTried(SubSeq(tried, 1, Len(tried) - 1), "error")
        /\ (AllTried(tried, "error") /\ Len(tried) < retry_count) => ret.status = "pending"
        /\ (AllTried(tried, "error") /\ Len(tried) = retry_count) => ret = Returned(Fetched(FALSE, << >>))
        /\ (tried # << >> /\ tried[Len(tried)] = "ok") => ret = Returned(Fetched(FALSE, inbox))

(***************************************************************************)
(* The generator facades (generate_image, create_video_from_image,         *)
(* create_video_from_images) from the submission on, and the downloaders   *)
(* (download_image, download_video): one action per step of a facade and   *)
(* per HTTP attempt of a downloader.  The wait is one step here; its       *)
(* iterations are the actions of Spec.  A call is a facade call (op =      *)
(* "facade") or a call of the downloader alone (op = "download").          *)
(***************************************************************************)
ContentLength == 1000   \* the Content-Length a response declares, when it declares one

DefaultMaxRetries == 3
TolerancePct == 5
ImageBackoff == 5
VideoBackoff == 10

U1 == "https://cdn/x"
U2 == "https://cdn/y"
SavePath == "save_path"

\* The data objects a success result of the waiter may carry.
Payloads ==
    { ResultData(JsonString(Obj(<< U1, U2 >>, NoUrl)), << >>, NoUrl),
      ResultData(JsonString(Obj(<< >>, U1)), << >>, NoUrl),
      ResultData(Json(TRUE, FALSE, TRUE, Obj(<< U1 >>, NoUrl)), << >>, NoUrl),
      ResultData(NoJson, << U1 >>, NoUrl),
      ResultData(NoJson, << >>, U1),
      ResultData(NoJson, << >>, NoUrl),
      ResultData(JsonString(EmptyObj), << >>, NoUrl),
      ResultData(NotJson, << U1 >>, NoUrl) }

Did(s) == \E i \in 1..Len(steps) : steps[i].step = s

\* create_task ignoring the vendor's code: the task id is taken from any reply.
CreateTaskAnyCode(c, net) ==
    IF net = "neterr" THEN Raised(Error("RequestException", 0))
    ELSE Returned(task_id)

\* create_task and generate_video: the one requests.post of the submission.
CreateTask(c, net) ==
    CASE net = "ok" -> Returned(task_id)
      [] net = "non200" -> Raised(Error("API Error", 0))
      [] net = "neterr" -> Raised(Error("RequestException", 0))

Found(u) == [ok |-> TRUE, url |-> u, error |-> ""]
NotFound(e) == [ok |-> FALSE, url |-> NoUrl, error |-> e]

\* ExtractUrl without the 'if not ...: raise' after the lookups.
ExtractUrlUnchecked(c, d) ==
    LET j == d.resultJson
    IN  IF c = "veo3"
        THEN IF d.videoUrl # NoUrl THEN Found(d.videoUrl)
             ELSE IF j.given /\ j.str /\ ~j.valid THEN NotFound("JSONDecodeError")
             ELSE IF j.given THEN Found(j.obj.videoUrl)
             ELSE Found(NoUrl)
        ELSE IF j.given /\ j.str /\ ~j.valid THEN NotFound("JSONDecodeError")
             ELSE LET o == IF j.given THEN j.obj ELSE EmptyObj
                      urls == IF o.resultUrls # << >> THEN o.resultUrls ELSE d.resultUrls
                  IN  IF urls = << >> THEN Found(NoUrl) ELSE Found(urls[1])

\* Step 3 of a facade: the asset URL of the waiter's result, or the error raised.
ExtractUrl(c, d) ==
    LET j == d.resultJson
    IN  IF c = "veo3"
        THEN IF d.videoUrl # NoUrl THEN Found(d.videoUrl)
             ELSE IF j.given /\ j.str /\ ~j.valid THEN NotFound("JSONDecodeError")
             ELSE IF j.given /\ j.obj.videoUrl # NoUrl THEN Found(j.obj.videoUrl)
             ELSE NotFound("No video URL in response")
        ELSE IF j.given /\ j.str /\ ~j.valid THEN NotFound("JSONDecodeError")
             ELSE LET o == IF j.given THEN j.obj ELSE EmptyObj
                      urls == IF o.resultUrls # << >> THEN o.resultUrls ELSE d.resultUrls
                  IN  IF urls = << >>
                      THEN NotFound(IF c = "kie" THEN "No images generated"
                                    ELSE "No video URL in response")
                      ELSE Found(urls[1])

\* One HTTP attempt of a downloader, as the network lets it end: a response
\* whose body ends after got bytes, or an error raised before the file is
\* opened (got = NoFile) or after got bytes were written.
Attempt(k, l, d) == [kind |-> k, total |-> l, got |-> d]
Lengths == {0, ContentLength}
Received ==
    { 0, ContentLength - ContentLength \div 10, ContentLength - ContentLength \div 20,
      ContentLength - ContentLength \div 25, ContentLength }
NetErrors == {"Timeout", "RequestException"}
AttemptOutcomes ==
    { Attempt("body", l, d) : l \in Lengths, d \in Received }
      \cup { Attempt(k, 0, d) : k \in NetErrors, d \in {NoFile, ContentLength \div 2} }

\* What follows the streaming loop of a downloader: "ok" or the error raised.
AfterBody(c, l, d) ==
    IF c = "kie"
    THEN IF l > 0 /\ d < l /\ ~((l - d) * 100 < TolerancePct * l)
         THEN "Incomplete download" ELSE "ok"
    ELSE IF d > 0 THEN "ok" ELSE "File was not saved properly"

\* Backoff with the same fixed sleep in both except clauses.
BackoffFlat(c, k, n) == IF c = "kie" THEN ImageBackoff ELSE VideoBackoff

\* The time.sleep of an except clause after the failed attempt n (1-based).
Backoff(c, k, n) ==
    LET unit == IF c = "kie" THEN ImageBackoff ELSE VideoBackoff
    IN  IF k = "Timeout" THEN n * unit ELSE unit

\* The statement after the loop raising the error of the first failed attempt.
FirstError(list) ==
    IF list = << >> THEN Error("Download failed", 0)
    ELSE Error(list[1].kind, 1)

\* raise last_error if last_error else Exception("Download failed")
LastError(list) ==
    IF list = << >> THEN Error("Download failed", 0)
    ELSE Error(list[Len(list)].kind, Len(list))

\* What the call gives back once the downloader has returned save_path.
Downloaded(o, c, u, f) ==
    IF o = "facade" /\ c # "kie" /\ f = NoFile
    THEN Raised(Error("File not found after download", 0))
    ELSE Returned([path |-> SavePath, url |-> u])

FacadeInit ==
    /\ client \in Clients
    /\ webhook_id = NoWebhook
    /\ max_wait_time = MaxWait
    /\ poll_interval = PollStep
    /\ clock = 0
    /\ elapsed = 0
    /\ poll_attempt = 0
    /\ consecutive_webhook_failures = 0
    /\ last_direct_query_time = 0
    /\ remote = Pending
    /\ inbox = << >>
    /\ outcome = Running
    /\ iter = 0
    /\ fetch = "skip"
    /\ failStreak = 0
    /\ query = "none"
    /\ op \in {"facade", "download"}
    /\ pc = IF op = "facade" THEN "submit" ELSE "download"
    /\ steps = << >>
    /\ payload = NoPayload
    /\ url = IF op = "facade" THEN NoUrl ELSE U1
    /\ max_retries \in IF op = "facade" THEN {DefaultMaxRetries} ELSE 0..DefaultMaxRetries
    /\ tried = << >>
    /\ slept = << >>
    /\ file = NoFile
    /\ ret = NotYet
    /\ NoLoop

\* Step 1: create_task / generate_video, with the webhook it could provision.
Submit ==
    /\ pc = "submit"
    /\ \E net \in NetOutcomes, wid \in {NoWebhook, "wh-1"} :
          LET r == CreateTask(client, net)
          IN  /\ steps' = Append(steps, Step("submit", net))
              /\ webhook_id' = IF r.status = "returned" THEN wid ELSE webhook_id
              /\ pc' = IF r.status = "returned" THEN "wait" ELSE "done"
              /\ ret' = IF r.status = "returned" THEN ret ELSE r
    /\ UNCHANGED << client, max_wait_time, poll_interval, clock, elapsed, poll_attempt,
                    consecutive_webhook_failures, last_direct_query_time, remote, inbox,
                    outcome, iter, fetch, failStreak, query >>
    /\ UNCHANGED << op, payload, url, max_retries, tried, slept, file >>
    /\ UNCHANGED loopVars

\* The ways a call of the waiter ends.
WaitResults(c, wid) ==
    { Return(v, Data(task_id, "success", "")) :
          v \in IF wid = NoWebhook THEN {"poll"} ELSE {"webhook", "poll"} }
      \cup { Raise("poll", FailMessage(c, PlainMsg)), TimedOut }
      \cup (IF c # "veo3" /\ wid # NoWebhook THEN {Crash("webhook")} ELSE {})

\* AfterWait with a facade that submits the task again when the wait timed out.
AfterWaitResubmit(w) ==
    IF w.kind = "success" THEN "parse"
    ELSE IF w.kind = "timeout" THEN "submit"
    ELSE "done"

\* Where a facade goes on after the waiter: to step 3 with the result it
\* returned; an exception of the waiter leaves the facade.
AfterWait(w) == IF w.kind = "success" THEN "parse" ELSE "done"

\* Step 2: wait_for_task / wait_for_video, as one step.
Wait ==
    /\ pc = "wait"
    /\ \E w \in WaitResults(client, webhook_id), p \in Payloads :
          /\ outcome' = w
          /\ steps' = Append(steps, Step("wait", w.kind))
          /\ payload' = IF w.kind = "success" THEN p ELSE payload
          /\ pc' = AfterWait(w)
          /\ ret' = IF w.kind = "success" THEN ret ELSE Raised(Error(w.msg.text, 0))
    /\ UNCHANGED << client, webhook_id, max_wait_time, poll_interval, clock, elapsed,
                    poll_attempt, consecutive_webhook_failures, last_direct_query_time,
                    remote, inbox, iter, fetch, failStreak, query >>
    /\ UNCHANGED << op, url, max_retries, tried, slept, file >>
    /\ UNCHANGED loopVars

\* Step 3: the asset URL is taken from the result, or the facade raises.
Parse ==
    /\ pc = "parse"
    /\ LET x == ExtractUrl(client, payload)
       IN  /\ steps' = Append(steps, Step("parse", IF x.ok THEN "ok" ELSE x.error))
           /\ url' = x.url
           /\ pc' = IF x.ok THEN "download" ELSE "done"
           /\ ret' = IF x.ok THEN ret ELSE Raised(Error(x.error, 0))
    /\ UNCHANGED << waitVars, op, payload, max_retries, tried, slept, file >>
    /\ UNCHANGED loopVars

\* Caught with one 'except Exception' clause around the attempt.
CaughtAll(k) == TRUE

\* The except clauses of the downloader's loop: requests.exceptions.Timeout
\* and requests.exceptions.RequestException; any other exception leaves the loop.
Caught(k) == k \in NetErrors

\* Step 4, one pass of the downloader's loop: an HTTP attempt and what follows it.
DownloadAttempt ==
    /\ pc = "download"
    /\ Len(tried) < max_retries
    /\ \E a \in AttemptOutcomes :
          LET n == Len(tried) + 1
              f == IF a.got = NoFile THEN file ELSE a.got
              exc == IF a.kind \in NetErrors THEN a.kind
                     ELSE AfterBody(client, a.total, a.got)
              retry == exc # "ok" /\ Caught(exc)
          IN  /\ tried' = Append(tried, a)
              /\ file' = f
              /\ steps' = IF Did("download") THEN steps
                          ELSE Append(steps, Step("download", "started"))
              /\ slept' = IF retry /\ n < max_retries
                          THEN Append(slept, Backoff(client, exc, n))
                          ELSE slept
              /\ ret' = IF retry THEN ret
                        ELSE IF exc = "ok" THEN Downloaded(op, client, url, f)
                        ELSE Raised(Error(exc, n))
              /\ pc' = IF retry THEN pc ELSE "done"
    /\ UNCHANGED << waitVars, op, payload, url, max_retries >>
    /\ UNCHANGED loopVars

\* The statement after the downloader's loop.
DownloadFails ==
    /\ pc = "download"
    /\ Len(tried) >= max_retries
    /\ steps' = IF Did("download") THEN steps ELSE Append(steps, Step("download", "started"))
    /\ ret' = Raised(LastError(tried))
    /\ pc' = "done"
    /\ UNCHANGED << waitVars, op, payload, url, max_retries, tried, slept, file >>
    /\ UNCHANGED loopVars

FacadeNext ==
    \/ Submit
    \/ Wait
    \/ Parse
    \/ DownloadAttempt
    \/ DownloadFails

FacadeSpec == FacadeInit /\ [][FacadeNext]_vars

\* The last attempt got a response that declared a length and whose body
\* ended before it.
ShortBody ==
    /\ op \in {"facade", "download"}
    /\ tried # << >>
    /\ tried[Len(tried)].kind = "body"
    /\ tried[Len(tried)].total > 0
    /\ tried[Len(tried)].got < tried[Len(tried)].total

\* 100 * (L - d) / L, the share of the declared bytes that is missing, is under 5
Under5PctMissing(l, d) == 100 * (l - d) < 5 * l

\* C11: in every downloader, a response that declared Content-Length L > 0
\* and delivered d < L bytes is accepted (the path is returned) when under 5%
\* of L is missing, and raises a completeness failure when 5% or more is.
C11_PartialTolerance ==
    ShortBody =>
        IF Under5PctMissing(tried[Len(tried)].total, tried[Len(tried)].got)
        THEN ret.status = "returned"
        ELSE ret.status = "raised" /\ ret.value.kind = "Incomplete download"

\* C12: no downloader returns a path, and no facade a result, unless the
\* file at the path exists and holds more than zero bytes.
C12_ReturnedFileNotEmpty ==
    (op \in {"facade", "download"} /\ ret.status = "returned") => (file # NoFile /\ file > 0)

\* C13: every downloader makes at most max_retries HTTP attempts, makes no
\* attempt after one that got a response, and when every attempt has failed
\* with a network error it has made max_retries attempts and raises the error
\* of the last one.
C13_BoundedRetryLastError ==
    op \in {"facade", "download"} =>
        /\ Len(tried) <= max_retries
        /\ \A i \in 1..(Len(tried) - 1) : tried[i].kind \in NetErrors
        /\ ret.status = "returned" => (tried # << >> /\ tried[Len(tried)].kind = "body")
        /\ (tried # << >> /\ ret.status # "pending"
              /\ \A i \in 1..Len(tried) : tried[i].kind \in NetErrors)
              => /\ Len(tried) = max_retries
                 /\ ret = Raised(Error(tried[Len(tried)].kind, Len(tried)))

C13_Witness ==
    /\ ret.status = "raised" /\ Len(tried) = DefaultMaxRetries
    /\ tried[1].kind = "Timeout" /\ tried[DefaultMaxRetries].kind = "RequestException"

\* The three shapes of a success result: the URL in the string resultJson
\* (under resultUrls or under videoUrl), in data.resultUrls, in data.videoUrl.
ThreeShapes ==
    { ResultData(JsonString(Obj(<< U1, U2 >>, NoUrl)), << >>, NoUrl),
      ResultData(JsonString(Obj(<< >>, U1)), << >>, NoUrl),
      ResultData(NoJson, << U1 >>, NoUrl),
      ResultData(NoJson, << >>, U1) }

\* C14: in every facade, a success result in any of the three shapes gives
\* the asset URL of the result: it is the URL downloaded from and the 'url' of
\* the result the facade returns.
C14_ShapesNormalized ==
    (op = "facade" /\ Did("parse") /\ payload \in ThreeShapes)
        => /\ url = U1
           /\ ret.status = "returned" => ret.value.url = U1

\* The result holds a URL in a place the facade of client c looks at.
KnowsUrl(c, d) ==
    IF c = "veo3"
    THEN d.videoUrl # NoUrl \/ (d.resultJson.given /\ d.resultJson.obj.videoUrl # NoUrl)
    ELSE d.resultUrls # << >> \/ (d.resultJson.given /\ d.resultJson.obj.resultUrls # << >>)

\* C15: in every facade, when the result of the wait holds no URL in any
\* place the facade looks at, the facade raises and starts no download: no
\* HTTP attempt is made, no file is written and nothing is returned.
C15_NoUrlNoDownload ==
    (op = "facade" /\ Did("parse") /\ ~KnowsUrl(client, payload))
        => /\ ret.status = "raised"
           /\ pc = "done"
           /\ ~Did("download")
           /\ tried = << >>
           /\ file = NoFile

C15_Witness ==
    /\ op = "facade" /\ Did("parse") /\ ret.status = "raised"
    /\ payload = ResultData(JsonString(EmptyObj), << >>, NoUrl)

\* C20: in every facade, the submission POST is made once, and when it fails
\* (HTTP error, or a vendor code other than 200) the error is raised in that
\* step: the facade has ended, with no wait entered and no download made.
C20_SubmitFailureRaised ==
    op = "facade" =>
        /\ Cardinality({i \in 1..Len(steps) : steps[i].step = "submit"}) <= 1
        /\ (steps # << >> /\ steps[1].result # "ok")
              => /\ ret.status = "raised"
                 /\ pc = "done"
                 /\ steps = << Step("submit", steps[1].result) >>
                 /\ outcome = Running
                 /\ tried = << >>
                 /\ file = NoFile

C20_Witness ==
    /\ op = "facade" /\ steps # << >> /\ steps[1].result = "non200"
    /\ ret = Raised(Error("API Error", 0))

\* The endpoints of method m that the call has contacted, in the order of the requests.
Contacted(m) ==
    LET at_m == {i \in 1..Len(steps) : steps[i].step.method = m}
    IN  [k \in 1..Cardinality(at_m) |->
            steps[CHOOSE i \in at_m : Cardinality({j \in at_m : j <= i}) = k].step]

IsPrefix(a, b) == Len(a) <= Len(b) /\ a = SubSeq(b, 1, Len(a))

\* C23: query_task of Sora2VideoCreator and Veo3VideoCreator contacts the GET
\* variants in list order, then the POST variants in list order, a POST only
\* after every GET, and no endpoint after one that answered; the reply of that
\* first answering endpoint is what it returns.
C23_EndpointOrder ==
    (op = "query_task" /\ client \in {"sora2", "veo3"}) =>
        /\ IsPrefix(Contacted("GET"), GetEndpoints(client))
        /\ IsPrefix(Contacted("POST"), PostEndpoints(client))
        /\ \A i \in 1..Len(steps) :
              steps[i].step.method = "POST" =>
                  /\ Contacted("GET") = GetEndpoints(client)
                  /\ \A j \in 1..Len(steps) : (steps[j].step.method = "GET") => j < i
        /\ \A i \in 1..(Len(steps) - 1) : steps[i].result = "neterr"
        /\ (steps # << >> /\ steps[Len(steps)].result = "ok")
              => ret = Returned(Reply(FALSE, FALSE, 200, remote))
        /\ (steps # << >> /\ steps[Len(steps)].result = "non200")
              => ret = Returned(Reply(FALSE, FALSE, 500, NoData))

C23_Witness ==
    /\ op = "query_task" /\ client = "veo3" /\ ret.status = "returned"
    /\ Len(steps) = 4 /\ steps[4].result = "ok" /\ steps[4].step.method = "POST"

\* C24: in every downloader the k-th failed attempt (1-based), when it is not
\* the last one allowed, is followed by one sleep: k*5 seconds (image) or k*10
\* seconds (video) after a timeout, 5 or 10 seconds after any other network
\* error; the last allowed attempt is followed by no sleep.
C24_BackoffSchedule ==
    op \in {"facade", "download"} =>
        /\ Len(slept) = Cardinality({k \in 1..Len(tried) :
                                        tried[k].kind \in NetErrors /\ k < max_retries})
        /\ \A k \in 1..Len(slept) :
              slept[k] = IF tried[k].kind = "Timeout"
                         THEN k * (IF client = "kie" THEN 5 ELSE 10)
                         ELSE (IF client = "kie" THEN 5 ELSE 10)

C24_Witness ==
    /\ client = "sora2" /\ Len(tried) = DefaultMaxRetries /\ max_retries = DefaultMaxRetries
    /\ tried[1].kind = "RequestException" /\ tried[2].kind = "Timeout"
    /\ tried[3].kind = "Timeout" /\ slept = << 10, 20 >>

StepNames == [i \in 1..Len(steps) |-> steps[i].step]

\* C25: a facade call takes its steps in the order submit, wait, (parse,)
\* download and submits one task: a download is started only after the wait
\* returned a success payload, and after a timeout or a failure of the remote
\* task the call has ended with no download and no second submission.
C25_StepOrder ==
    op = "facade" =>
        /\ IsPrefix(StepNames, << "submit", "wait", "parse", "download" >>)
        /\ tried # << >> => (Did("download") /\ steps[2].result = "success")
        /\ (Len(steps) >= 2 /\ steps[2].result # "success")
              => /\ pc = "done"
                 /\ ret.status = "raised"
                 /\ StepNames = << "submit", "wait" >>
                 /\ tried = << >>
                 /\ file = NoFile

C25_Witness ==
    /\ op = "facade" /\ Len(steps) = 2 /\ steps[2].result = "timeout"
    /\ pc = "done" /\ ret.status = "raised"

\* The last attempt got a response that the downloader does not accept: in
\* download_image 5% or more of the declared length is missing, in
\* download_video the file is empty.
BodyRejected ==
    /\ op \in {"facade", "download"}
    /\ tried # << >>
    /\ tried[Len(tried)].kind = "body"
    /\ IF client = "kie"
       THEN /\ tried[Len(tried)].total > 0
            /\ tried[Len(tried)].got < tried[Len(tried)].total
            /\ ~Under5PctMissing(tried[Len(tried)].total, tried[Len(tried)].got)
       ELSE tried[Len(tried)].got = 0

\* C27: a response the downloader does not accept raises on that very
\* attempt ('Incomplete download' in download_image, 'File was not saved
\* properly' in download_video): the call has ended, no sleep follows and no
\* further attempt is made, whatever number of attempts remains.
C27_RejectedNotRetried ==
    BodyRejected =>
        /\ ret = Raised(Error(IF client = "kie" THEN "Incomplete download"
                              ELSE "File was not saved properly", Len(tried)))
        /\ pc = "done"
        /\ Len(slept) = Len(tried) - 1
        /\ ~ENABLED DownloadAttempt

C27_Witness ==
    /\ BodyRejected /\ Len(tried) = 1 /\ max_retries = DefaultMaxRetries
    /\ ret.status = "raised"

\* ---------------------------------------------------------------------------
\* AutomationLoop.run_automation_loop
\* ---------------------------------------------------------------------------

\* Bound: the number of reference images, one product each.
total_items == 2

\* Bound: the rounds the model follows; the code's while loop has no limit.
MaxRounds == 3

\* if self.consecutive_failures >= 5
FailureLimit == 5

VideoMethods == {"Veo3", "Sora 2"}

\* How one video generation ends: a video, a TimeoutError, an Exception
\* whose message contains 'photorealistic people', any other Exception.
VideoOutcomes == {"ok", "timeout", "photo", "error"}

\* How the image step ends: an image is appended; generate_images_from_prompt
\* catches the failure itself and returns; an exception reaches the loop.
ImageOutcomes == {"ok", "swallowed", "raised"}

ShouldStopNever(requested) == FALSE

\* if stop_callback and stop_callback()
ShouldStop(requested) == requested

FallsBackAlways(method, err) == err # "ok"

\* except Exception: 'photorealistic people' in error_msg.lower() and "Sora" in video_method
FallsBack(method, err) == err \in {"photo"} /\ method = "Sora 2"

\* if "Veo3" in video_method: Veo3VideoCreator else Sora2VideoCreator
Creator(method) == IF method = "Veo3" THEN "Veo3" ELSE "Sora 2"

VideoAttempt(creator, image, result) == [creator |-> creator, image |-> image, result |-> result]

\* The attempts of one video step whose first attempt ends as first and whose
\* Veo3 fallback, if made, ends as second.
Attempts(method, image, first, second) ==
    << VideoAttempt(Creator(method), image, first) >> \o
    (IF first # "timeout" /\ FallsBack(method, first)
     THEN << VideoAttempt("Veo3", image, second) >>
     ELSE << >>)

ProcessedAlways(log) == 1

\* total_products_processed += 1 at the end of the try and of the fallback's try
Processed(log) == IF log[Len(log)].result = "ok" THEN 1 ELSE 0

\* total_products_skipped += 1 in the three except blocks
Skipped(log) == IF log[Len(log)].result = "ok" THEN 0 ELSE 1

LoopInit ==
    /\ client = "kie"
    /\ webhook_id = NoWebhook
    /\ max_wait_time = MaxWait
    /\ poll_interval = PollStep
    /\ clock = 0
    /\ elapsed = 0
    /\ poll_attempt = 0
    /\ consecutive_webhook_failures = 0
    /\ last_direct_query_time = 0
    /\ remote = Pending
    /\ inbox = << >>
    /\ outcome = Running
    /\ iter = 0
    /\ fetch = "skip"
    /\ failStreak = 0
    /\ query = "none"
    /\ op = "loop"
    /\ NoCallYet
    /\ is_running = TRUE
    /\ total_products_processed = 0
    /\ total_products_skipped = 0
    /\ consecutive_failures = 0
    /\ round_number = 1
    /\ idx = 0
    /\ at = "round"
    /\ generated_images \in {0, 1}
    /\ video_method \in VideoMethods
    /\ api_keys \in BOOLEAN
    /\ stop_requested = FALSE
    /\ stopped_by = "none"
    /\ started = 0
    /\ images_started = 0
    /\ videos_started = 0
    /\ failed_since_ok = 0
    /\ video_log = << >>

\* self.is_running = False; break, and the break after the for loop: the
\* method returns without advancing round_number.
Stops(why) ==
    /\ is_running' = FALSE
    /\ at' = "returned"
    /\ stopped_by' = why
    /\ UNCHANGED << round_number, idx >>

\* continue, or the end of the for body: the next product, or after the last
\* one round_number += 1 and the next round.
NextItem ==
    /\ IF idx + 1 < total_items
       THEN idx' = idx + 1 /\ at' = "product" /\ round_number' = round_number
       ELSE idx' = 0 /\ at' = "round" /\ round_number' = round_number + 1
    /\ UNCHANGED << is_running, stopped_by >>

\* The user presses STOP: loop_is_running becomes False, stop_callback
\* returns True from now on.
UserStops ==
    /\ at \in {"round", "product", "image", "check", "video"}
    /\ ~stop_requested
    /\ stop_requested' = TRUE
    /\ UNCHANGED << is_running, total_products_processed, total_products_skipped,
                    consecutive_failures, round_number, idx, at, generated_images,
                    video_method, api_keys, stopped_by, started, images_started,
                    videos_started, failed_since_ok, video_log >>
    /\ UNCHANGED << waitVars, callVars >>

\* while self.is_running: the credit check at the top of a round.
RoundTop ==
    /\ at = "round"
    /\ round_number <= MaxRounds
    /\ \E low \in BOOLEAN :
          IF low THEN Stops("credits")
                 ELSE /\ at' = "product"
                      /\ UNCHANGED << is_running, stopped_by, round_number, idx >>
    /\ UNCHANGED << total_products_processed, total_products_skipped,
                    consecutive_failures, generated_images, video_method, api_keys,
                    stop_requested, started, images_started, videos_started,
                    failed_since_ok, video_log >>
    /\ UNCHANGED << waitVars, callVars >>

\* for idx, ref_image_path in enumerate(reference_images): the stop check
\* that opens a product's iteration.
ProductTop ==
    /\ at = "product"
    /\ IF ShouldStop(stop_requested)
       THEN Stops("user") /\ UNCHANGED << started, video_log >>
       ELSE /\ at' = "image"
            /\ started' = started + 1
            /\ video_log' = << >>
            /\ UNCHANGED << is_running, stopped_by, round_number, idx >>
    /\ UNCHANGED << total_products_processed, total_products_skipped,
                    consecutive_failures, generated_images, video_method, api_keys,
                    stop_requested, images_started, videos_started, failed_since_ok >>
    /\ UNCHANGED << waitVars, callVars >>

\* STEP 1: Generate Image, with its except block.
ImageStep ==
    /\ at = "image"
    /\ images_started' = images_started + 1
    /\ \E r \in ImageOutcomes :
          CASE r = "ok" ->
                  /\ generated_images' = generated_images + 1
                  /\ consecutive_failures' = 0
                  /\ failed_since_ok' = 0
                  /\ at' = "check"
                  /\ UNCHANGED << is_running, stopped_by, round_number, idx >>
            [] r = "swallowed" ->
                  /\ generated_images' = generated_images
                  /\ consecutive_failures' =
                        IF generated_images > 0 THEN 0 ELSE consecutive_failures
                  /\ failed_since_ok' = failed_since_ok + 1
                  /\ at' = "check"
                  /\ UNCHANGED << is_running, stopped_by, round_number, idx >>
            [] r = "raised" ->
                  /\ generated_images' = generated_images
                  /\ consecutive_failures' = consecutive_failures + 1
                  /\ failed_since_ok' = failed_since_ok + 1
                  /\ IF consecutive_failures' >= FailureLimit
                     THEN Stops("failures")
                     ELSE NextItem
    /\ UNCHANGED << total_products_processed, total_products_skipped, video_method,
                    api_keys, stop_requested, started, videos_started, video_log >>
    /\ UNCHANGED << waitVars, callVars >>

\* The stop check between the image step and the video step.
MidCheck ==
    /\ at = "check"
    /\ IF ShouldStop(stop_requested)
       THEN Stops("user")
       ELSE at' = "video" /\ UNCHANGED << is_running, stopped_by, round_number, idx >>
    /\ UNCHANGED << total_products_processed, total_products_skipped,
                    consecutive_failures, generated_images, video_method, api_keys,
                    stop_requested, started, images_started, videos_started,
                    failed_since_ok, video_log >>
    /\ UNCHANGED << waitVars, callVars >>

\* STEP 2: Generate Video, with its except blocks and the Veo3 fallback.
VideoStep ==
    /\ at = "video"
    /\ IF generated_images = 0 \/ ~api_keys
       THEN UNCHANGED << total_products_processed, total_products_skipped,
                         videos_started, video_log >>
       ELSE \E first \in VideoOutcomes, second \in VideoOutcomes :
               LET log == Attempts(video_method, generated_images, first, second)
               IN  /\ video_log' = log
                   /\ videos_started' = videos_started + 1
                   /\ total_products_processed' = total_products_processed + Processed(log)
                   /\ total_products_skipped' = total_products_skipped + Skipped(log)
    /\ NextItem
    /\ UNCHANGED << consecutive_failures, generated_images, video_method, api_keys,
                    stop_requested, started, images_started, failed_since_ok >>
    /\ UNCHANGED << waitVars, callVars >>

LoopNext ==
    \/ UserStops
    \/ RoundTop
    \/ ProductTop
    \/ ImageStep
    \/ MidCheck
    \/ VideoStep

LoopSpec == LoopInit /\ [][LoopNext]_vars

\* The step made a video attempt: it left the video step past the checks for
\* an image and for the API keys.
VideoAttempted == videos_started' = videos_started + 1

C28_CountsImageFailures ==
    /\ consecutive_failures = failed_since_ok
    /\ consecutive_failures <= FailureLimit
    /\ consecutive_failures = FailureLimit => (~is_running /\ at = "returned")

=============================================================================
